---- MODULE Spec2Model ----
(***************************************************************************)
(* Model of src/src/lib/api.ts: the ModelRegistry key-value record         *)
(* ('models'), ExecutionEngine.invokeSingleModel and                        *)
(* ExecutionEngine.executePipeline, with the execution history             *)
(* ('executions').  Every await of the source is an interleaving point: an *)
(* action runs from the resumption of one await to the next one.           *)
(***************************************************************************)
EXTENDS Integers, Sequences, FiniteSets, TLC

\* ---------------------------------------------------------------- bounds
MaxNodes == 3
MaxEdges == 2
NRuns == 2
MaxConcNodes == 1
NOps == 2

\* ------------------------------------------------------------ input sets
NodeNames == <<"A", "B", "C", "D">>
ModelNames == <<"m1", "m2", "m3">>
NodeIds == {NodeNames[i] : i \in 1..MaxNodes}
Runs == 1..NRuns
Ops == 1..NOps
\* ids registerModel generates (model_${Date.now()}_${random}), one per call
NewIds == <<"n1", "n2", "n3", "n4">>

\* the modelId a pipeline node references (PipelineNode.modelId)
ModelOf(n) ==
  LET i == CHOOSE k \in 1..Len(NodeNames) : NodeNames[k] = n
  IN ModelNames[((i - 1) % Len(ModelNames)) + 1]

\* latency (ms) of a freshly registered model and latencies a call can take
InitialLatency == 4
ObservedLatencies == {1, 6}

\* responses of a model endpoint to fetch (api.ts:134-144)
Outcomes == {"ok", "httpError", "networkError", "badJson"}

NoModel == [id |-> "none", endpoint |-> "none", status |-> "offline", latency |-> 0,
            modelType |-> "custom", tags |-> {}]
NoUpdates == [latency |-> -1, status |-> "none"]
NoPayload == "nothing"
NoQuery == [status |-> "none"]
NoResult == [kind |-> "none", model |-> NoModel, value |-> NoPayload]

\* the caller's initialInput and the JSON body a node's endpoint answers with
initialInput == "input"
Output(n) == n

VARIABLES
  kvModels,      \* spark.kv 'models': sequence of ModelMetadata
  kvExecutions,  \* spark.kv 'executions': sequence of PipelineExecution
  calls,         \* network trace: every fetch issued, with its outcome
  pc,            \* per run: the await the run is suspended at
  pipeline,      \* per run: the pipeline argument
  idx,           \* per run: position of the for-loop in pipeline.nodes
  currentOutput, \* per run: local currentOutput
  execution,     \* per run: local execution record
  model,         \* per run: local model of invokeSingleModel
  updates,       \* per run: updates argument of the pending updateModel
  threw,         \* per run: whether invokeSingleModel throws after updateModel
  models,        \* per run: local models array of updateModel
  executions,    \* per run: local executions array
  result,        \* per run: the record executePipeline returned
  opPc,          \* per registry/invocation call: the await it is suspended at
  opId,          \* per call: the id / modelId argument
  opInput,       \* per call: the input argument of invokeSingleModel
  opModel,       \* per call: local model of invokeSingleModel
  opUpdates,     \* per call: the updates argument of updateModel
  opModels,      \* per call: local models array
  opResult,      \* per call: what the call returned or threw
  opQuery        \* per call: the query argument of searchModels

opVars == <<opPc, opId, opInput, opModel, opUpdates, opModels, opResult, opQuery>>
runVars == <<pc, pipeline, idx, currentOutput, execution, model, updates, threw,
             models, executions, result>>
vars == <<kvModels, kvExecutions, calls, pc, pipeline, idx, currentOutput,
          execution, model, updates, threw, models, executions, result,
          opPc, opId, opInput, opModel, opUpdates, opModels, opResult, opQuery>>

\* ------------------------------------------------------- pure helpers

\* sequences without repetition over a set, up to a length
RECURSIVE Perms(_, _)
Perms(S, k) ==
  IF k = 0 THEN {<<>>}
  ELSE {<<>>} \cup UNION {{<<x>> \o t : t \in Perms(S \ {x}, k - 1)} : x \in S}

NodeOf(n) == [id |-> n, modelId |-> ModelOf(n)]
NodeLists(k) == {[i \in 1..Len(s) |-> NodeOf(s[i])] : s \in Perms(NodeIds, k)}

\* edges between two different node ids (a cycle is then A->B, B->A)
EdgePairs == {e \in NodeIds \X NodeIds : e[1] # e[2]}
EdgeSets == {E \in SUBSET EdgePairs : Cardinality(E) <= MaxEdges}

Pipelines == [nodes : NodeLists(MaxNodes), edges : EdgeSets]
ConcPipelines == [nodes : NodeLists(MaxConcNodes), edges : {{}}]
NoPipeline == [nodes |-> <<>>, edges |-> {}]

\* modelType and tags of the models of the directory
TypeOf(m) == IF m = "m2" THEN "vision" ELSE "llm"
TagsOf(m) == IF m = "m1" THEN {"t1", "t2"} ELSE IF m = "m2" THEN {"t1"} ELSE {}
ModelRecord(m) == [id |-> m, endpoint |-> m, status |-> "offline", latency |-> InitialLatency,
                   modelType |-> TypeOf(m), tags |-> TagsOf(m)]
Directories == {<<ModelRecord("m1"), ModelRecord("m2")>>,
                <<ModelRecord("m1"), ModelRecord("m2"), ModelRecord("m3")>>}

RoundHalf_Floor(a, b) == (a + b) \div 2
\* Math.round of (a + b) / 2 for non-negative integers (half rounds up)
RoundHalf(a, b) == (a + b + 1) \div 2

\* models.findIndex(m => m.id === id); 0 stands for -1
FindIndex(ms, id) ==
  IF \E i \in 1..Len(ms) : ms[i].id = id
  THEN CHOOSE i \in 1..Len(ms) : ms[i].id = id /\ \A j \in 1..(i - 1) : ms[j].id # id
  ELSE 0

\* ModelRegistry.getModelById
GetModelById(ms, id) ==
  IF FindIndex(ms, id) = 0 THEN NoModel ELSE ms[FindIndex(ms, id)]

Merge_TagsCleared(m, u) ==
  [f \in DOMAIN m |-> IF f \in DOMAIN u THEN u[f] ELSE IF f = "tags" THEN {} ELSE m[f]]
Merge_StatusDropped(m, u) ==
  [f \in DOMAIN m |-> IF f \in DOMAIN u \ {"status"} THEN u[f] ELSE m[f]]
\* { ...models[index], ...updates }: the fields of updates replace those of
\* the record (lastChecked, a timestamp, is left out of the records)
Merge(m, u) == [f \in DOMAIN m |-> IF f \in DOMAIN u THEN u[f] ELSE m[f]]

ResponseOk_NoStatusCheck(outcome) == outcome \notin {"networkError", "badJson"}
\* response.ok and a parseable body (api.ts:140-144)
ResponseOk(outcome) == outcome = "ok"

\* Date.now() - startedAt (line 186): the time the run has spent so far,
\* counted as the sum of the latencies of its model calls
RECURSIVE Elapsed(_, _)
Elapsed(r, n) ==
  IF n = 0 THEN 0
  ELSE Elapsed(r, n - 1) + (IF calls[n].run = r THEN calls[n].latency ELSE 0)

\* lines 166-172; totalLatency and totalCost are undefined (-1) at first
NewExecution(r, p) ==
  [id |-> r, status |-> "running", completed |-> FALSE, invocations |-> <<>>,
   totalLatency |-> -1, totalCost |-> -1]
MarkCompleted_StatusKept(e) ==
  [e EXCEPT !.completed = TRUE, !.totalLatency = Elapsed(e.id, Len(calls))]
\* lines 184-186: status, completedAt and totalLatency are set
MarkCompleted(e) ==
  [e EXCEPT !.status = "completed", !.completed = TRUE,
            !.totalLatency = Elapsed(e.id, Len(calls))]
MarkFailed_StatusKept(e) == [e EXCEPT !.completed = TRUE]
MarkFailed_Swallowed(e) == [e EXCEPT !.status = "completed", !.completed = TRUE]
MarkFailed(e) == [e EXCEPT !.status = "failed", !.completed = TRUE]

LoopDone(p, i) == i > Len(p.nodes)

\* ---------------------------------------------------------------- Init
InitLocals ==
  /\ idx = [r \in Runs |-> 0]
  /\ currentOutput = [r \in Runs |-> NoPayload]
  /\ execution = [r \in Runs |-> NewExecution(r, NoPipeline)]
  /\ model = [r \in Runs |-> NoModel]
  /\ updates = [r \in Runs |-> NoUpdates]
  /\ threw = [r \in Runs |-> FALSE]
  /\ models = [r \in Runs |-> <<>>]
  /\ executions = [r \in Runs |-> <<>>]
  /\ result = [r \in Runs |-> NewExecution(r, NoPipeline)]
  /\ kvExecutions = <<>>
  /\ calls = <<>>
  /\ opId = [o \in Ops |-> "none"]
  /\ opInput = [o \in Ops |-> NoPayload]
  /\ opModel = [o \in Ops |-> NoModel]
  /\ opUpdates = [o \in Ops |-> NoUpdates]
  /\ opModels = [o \in Ops |-> <<>>]
  /\ opResult = [o \in Ops |-> NoResult]
  /\ opQuery = [o \in Ops |-> NoQuery]

\* one executePipeline run on any pipeline
Init ==
  /\ kvModels \in Directories
  /\ \E p \in Pipelines : pipeline = [r \in Runs |-> IF r = 1 THEN p ELSE NoPipeline]
  /\ pc = [r \in Runs |-> IF r = 1 THEN "ready" ELSE "off"]
  /\ opPc = [o \in Ops |-> "off"]
  /\ InitLocals

\* NRuns concurrent executePipeline runs
InitConc ==
  /\ kvModels \in Directories
  /\ pipeline \in [Runs -> ConcPipelines]
  /\ pc = [r \in Runs |-> "ready"]
  /\ opPc = [o \in Ops |-> "off"]
  /\ InitLocals

\* NOps concurrent calls of ModelRegistry / invokeSingleModel, no pipeline run,
\* on a directory that holds m1 and m2 (m3 is unknown)
InitReg ==
  /\ kvModels = <<ModelRecord("m1"), ModelRecord("m2")>>
  /\ pipeline = [r \in Runs |-> NoPipeline]
  /\ pc = [r \in Runs |-> "off"]
  /\ opPc = [o \in Ops |-> "idle"]
  /\ InitLocals

\* one executePipeline run next to one call of ModelRegistry / invokeSingleModel
InitMix ==
  /\ kvModels = <<ModelRecord("m1"), ModelRecord("m2")>>
  /\ \E p \in ConcPipelines : pipeline = [r \in Runs |-> IF r = 1 THEN p ELSE NoPipeline]
  /\ pc = [r \in Runs |-> IF r = 1 THEN "ready" ELSE "off"]
  /\ opPc = [o \in Ops |-> IF o = 1 THEN "idle" ELSE "off"]
  /\ InitLocals

\* ------------------------------------------------------------- actions
\* executePipeline entered: lines 166-179, up to the first await
Start(r) ==
  /\ pc[r] = "ready"
  /\ idx' = [idx EXCEPT ![r] = 1]
  /\ currentOutput' = [currentOutput EXCEPT ![r] = initialInput]
  /\ IF LoopDone(pipeline[r], 1)
     THEN /\ execution' = [execution EXCEPT ![r] = MarkCompleted(NewExecution(r, pipeline[r]))]
          /\ pc' = [pc EXCEPT ![r] = "saveGet"]
     ELSE /\ execution' = [execution EXCEPT ![r] = NewExecution(r, pipeline[r])]
          /\ pc' = [pc EXCEPT ![r] = "getModel"]
  /\ UNCHANGED <<kvModels, kvExecutions, calls, pipeline, model, updates, threw,
                 models, executions, result>>
  /\ UNCHANGED opVars

\* invokeSingleModel lines 120-138: getModelById resumes, fetch is issued
GetModel(r) ==
  /\ pc[r] = "getModel"
  /\ LET node == pipeline[r].nodes[idx[r]]
         m == GetModelById(kvModels, node.modelId)
     IN IF m = NoModel
        THEN \* throw at line 121, caught at line 188
             /\ execution' = [execution EXCEPT ![r] = MarkFailed(@)]
             /\ pc' = [pc EXCEPT ![r] = "saveGet"]
             /\ UNCHANGED <<model, calls>>
        ELSE /\ model' = [model EXCEPT ![r] = m]
             /\ calls' = Append(calls, [run |-> r, node |-> node.id, modelId |-> m.id,
                                        input |-> currentOutput[r], status |-> "inflight",
                                        latency |-> 0])
             /\ pc' = [pc EXCEPT ![r] = "fetch"]
             /\ UNCHANGED execution
  /\ UNCHANGED <<kvModels, kvExecutions, pipeline, idx, currentOutput, updates, threw,
                 models, executions, result>>
  /\ UNCHANGED opVars

\* index of the call of run r that is in flight
InFlight(r) == CHOOSE i \in 1..Len(calls) : calls[i].run = r /\ calls[i].status = "inflight"

\* invokeSingleModel lines 134-153 / 156-160: the response arrives and
\* updateModel is called with the outcome
Respond(r) ==
  /\ pc[r] = "fetch"
  /\ \E outcome \in Outcomes, latency \in ObservedLatencies :
       IF ResponseOk(outcome)
       THEN /\ updates' = [updates EXCEPT ![r] =
                 [latency |-> RoundHalf(model[r].latency, latency), status |-> "online"]]
            /\ threw' = [threw EXCEPT ![r] = FALSE]
            /\ calls' = [calls EXCEPT ![InFlight(r)].status = outcome,
                                      ![InFlight(r)].latency = latency]
       ELSE /\ updates' = [updates EXCEPT ![r] = [status |-> "error"]]
            /\ threw' = [threw EXCEPT ![r] = TRUE]
            /\ calls' = [calls EXCEPT ![InFlight(r)].status = outcome]
  /\ pc' = [pc EXCEPT ![r] = "updGet"]
  /\ UNCHANGED <<kvModels, kvExecutions, pipeline, idx, currentOutput, execution,
                 model, models, executions, result>>
  /\ UNCHANGED opVars

\* what the run does once invokeSingleModel has returned or thrown:
\* lines 181-186 (next iteration or completion) or lines 188-190 (catch)
AfterInvoke(r) ==
  IF threw[r]
  THEN /\ execution' = [execution EXCEPT ![r] = MarkFailed(@)]
       /\ pc' = [pc EXCEPT ![r] = "saveGet"]
       /\ UNCHANGED <<idx, currentOutput>>
  ELSE /\ currentOutput' = [currentOutput EXCEPT ![r] = Output(pipeline[r].nodes[idx[r]].id)]
       /\ idx' = [idx EXCEPT ![r] = @ + 1]
       /\ IF LoopDone(pipeline[r], idx[r] + 1)
          THEN /\ execution' = [execution EXCEPT ![r] = MarkCompleted(@)]
               /\ pc' = [pc EXCEPT ![r] = "saveGet"]
          ELSE /\ pc' = [pc EXCEPT ![r] = "getModel"]
               /\ UNCHANGED execution

\* updateModel lines 29-34: getAllModels resumes
UpdateModelGet(r) ==
  /\ pc[r] = "updGet"
  /\ LET index == FindIndex(kvModels, model[r].id)
     IN IF index = 0
        THEN \* return null, invokeSingleModel goes on
             /\ AfterInvoke(r)
             /\ UNCHANGED models
        ELSE /\ models' = [models EXCEPT ![r] =
                  [kvModels EXCEPT ![index] = Merge(@, updates[r])]]
             /\ pc' = [pc EXCEPT ![r] = "updSet"]
             /\ UNCHANGED <<idx, currentOutput, execution>>
  /\ UNCHANGED <<kvModels, kvExecutions, calls, pipeline, model, updates, threw,
                 executions, result>>
  /\ UNCHANGED opVars

\* updateModel lines 35-37: spark.kv.set('models', models), then the caller
UpdateModelSet(r) ==
  /\ pc[r] = "updSet"
  /\ kvModels' = models[r]
  /\ AfterInvoke(r)
  /\ UNCHANGED <<kvExecutions, calls, pipeline, model, updates, threw, models,
                 executions, result>>
  /\ UNCHANGED opVars

\* executePipeline lines 194-195: the history is read and the record pushed
SaveGet(r) ==
  /\ pc[r] = "saveGet"
  /\ executions' = [executions EXCEPT ![r] = Append(kvExecutions, execution[r])]
  /\ pc' = [pc EXCEPT ![r] = "saveSet"]
  /\ UNCHANGED <<kvModels, kvExecutions, calls, pipeline, idx, currentOutput,
                 execution, model, updates, threw, models, result>>
  /\ UNCHANGED opVars

\* executePipeline lines 196-198: the history is written, the record returned
SaveSet(r) ==
  /\ pc[r] = "saveSet"
  /\ kvExecutions' = executions[r]
  /\ result' = [result EXCEPT ![r] = execution[r]]
  /\ pc' = [pc EXCEPT ![r] = "done"]
  /\ UNCHANGED <<kvModels, calls, pipeline, idx, currentOutput, execution, model,
                 updates, threw, models, executions>>
  /\ UNCHANGED opVars

Next ==
  \E r \in Runs :
    \/ Start(r)
    \/ GetModel(r)
    \/ Respond(r)
    \/ UpdateModelGet(r)
    \/ UpdateModelSet(r)
    \/ SaveGet(r)
    \/ SaveSet(r)

\* ------------------------------------- registry and direct invocation
\* arguments the callers pass
RegisterArgs == [endpoint : {"e"}, status : {"offline", "online"}, latency : {InitialLatency},
                 modelType : {"custom"}, tags : {{}}]
UserUpdates == {[status |-> "online"], [latency |-> 2], [id |-> "m2"]}
\* ids passed to updateModel: a registered one, one that may be unknown, a
\* freshly registered one
TargetIds == {"m1", "m3", NewIds[1]}
\* ids passed to invokeSingleModel: a registered one, one that may be unknown
InvokeIds == {"m1", "m3"}
Inputs == {initialInput, "malformed"}

Returned(kind, m, v) == [kind |-> kind, model |-> m, value |-> v]

\* the check of line 121: if (!model) throw
ModelMissing_Never(m) == FALSE
ModelMissing(m) == m = NoModel

\* registerModel lines 5-13: the record is built, the directory read, the
\* record pushed
RegisterModelGet(o) ==
  /\ opPc[o] = "idle"
  /\ \E arg \in RegisterArgs :
       LET newModel == [id |-> NewIds[o], endpoint |-> arg.endpoint,
                        status |-> arg.status, latency |-> arg.latency,
                        modelType |-> arg.modelType, tags |-> arg.tags]
       IN /\ opModels' = [opModels EXCEPT ![o] = Append(kvModels, newModel)]
          /\ opResult' = [opResult EXCEPT ![o] = Returned("pending", newModel, NoPayload)]
          /\ opId' = [opId EXCEPT ![o] = newModel.id]
  /\ opPc' = [opPc EXCEPT ![o] = "regSet"]
  /\ UNCHANGED <<kvModels, kvExecutions, calls, opInput, opModel, opUpdates>>
  /\ UNCHANGED <<runVars, opQuery>>

\* registerModel lines 14-16
RegisterModelSet(o) ==
  /\ opPc[o] = "regSet"
  /\ kvModels' = opModels[o]
  /\ opResult' = [opResult EXCEPT ![o].kind = "model"]
  /\ opPc' = [opPc EXCEPT ![o] = "done"]
  /\ UNCHANGED <<kvExecutions, calls, opId, opInput, opModel, opUpdates, opModels>>
  /\ UNCHANGED <<runVars, opQuery>>

\* updateModel lines 29-34, called by a user of the registry
UserUpdateGet(o) ==
  /\ opPc[o] = "idle"
  /\ \E id \in TargetIds, u \in UserUpdates :
       LET index == FindIndex(kvModels, id)
       IN /\ opId' = [opId EXCEPT ![o] = id]
          /\ opUpdates' = [opUpdates EXCEPT ![o] = u]
          /\ IF index = 0
             THEN /\ opResult' = [opResult EXCEPT ![o] = Returned("null", NoModel, NoPayload)]
                  /\ opPc' = [opPc EXCEPT ![o] = "done"]
                  /\ UNCHANGED opModels
             ELSE /\ opModels' = [opModels EXCEPT ![o] =
                       [kvModels EXCEPT ![index] = Merge(@, u)]]
                  /\ opResult' = [opResult EXCEPT ![o] =
                       Returned("pending", Merge(kvModels[index], u), NoPayload)]
                  /\ opPc' = [opPc EXCEPT ![o] = "userUpdSet"]
  /\ UNCHANGED <<kvModels, kvExecutions, calls, opInput, opModel>>
  /\ UNCHANGED <<runVars, opQuery>>

\* updateModel lines 35-37
UserUpdateSet(o) ==
  /\ opPc[o] = "userUpdSet"
  /\ kvModels' = opModels[o]
  /\ opResult' = [opResult EXCEPT ![o].kind = "model"]
  /\ opPc' = [opPc EXCEPT ![o] = "done"]
  /\ UNCHANGED <<kvExecutions, calls, opId, opInput, opModel, opUpdates, opModels>>
  /\ UNCHANGED <<runVars, opQuery>>

\* invokeSingleModel lines 120-138 called directly: getModelById resumes,
\* fetch is issued
InvokeGet(o) ==
  /\ opPc[o] = "idle"
  /\ \E id \in InvokeIds, input \in Inputs :
       LET m == GetModelById(kvModels, id)
       IN /\ opId' = [opId EXCEPT ![o] = id]
          /\ opInput' = [opInput EXCEPT ![o] = input]
          /\ IF ModelMissing(m)
             THEN /\ opResult' = [opResult EXCEPT ![o] = Returned("notFound", NoModel, NoPayload)]
                  /\ opPc' = [opPc EXCEPT ![o] = "done"]
                  /\ UNCHANGED <<opModel, calls>>
             ELSE /\ opModel' = [opModel EXCEPT ![o] = m]
                  /\ calls' = Append(calls, [run |-> 0 - o, node |-> "direct", modelId |-> m.id,
                                             input |-> input, status |-> "inflight",
                                             latency |-> 0])
                  /\ opPc' = [opPc EXCEPT ![o] = "fetch"]
                  /\ UNCHANGED opResult
  /\ UNCHANGED <<kvModels, kvExecutions, opUpdates, opModels>>
  /\ UNCHANGED <<runVars, opQuery>>

\* invokeSingleModel lines 134-153 / 156-160: the response arrives
InvokeRespond(o) ==
  /\ opPc[o] = "fetch"
  /\ \E outcome \in Outcomes, latency \in ObservedLatencies :
       IF ResponseOk(outcome)
       THEN /\ opUpdates' = [opUpdates EXCEPT ![o] =
                 [latency |-> RoundHalf(opModel[o].latency, latency), status |-> "online"]]
            /\ opResult' = [opResult EXCEPT ![o] = Returned("pendingOutput", NoModel, Output(opId[o]))]
            /\ calls' = [calls EXCEPT ![InFlight(0 - o)].status = outcome,
                                      ![InFlight(0 - o)].latency = latency]
       ELSE /\ opUpdates' = [opUpdates EXCEPT ![o] = [status |-> "error"]]
            /\ opResult' = [opResult EXCEPT ![o] = Returned("pendingError", NoModel, NoPayload)]
            /\ calls' = [calls EXCEPT ![InFlight(0 - o)].status = outcome]
  /\ opPc' = [opPc EXCEPT ![o] = "invUpdGet"]
  /\ UNCHANGED <<kvModels, kvExecutions, opId, opInput, opModel, opModels>>
  /\ UNCHANGED <<runVars, opQuery>>

\* invokeSingleModel returns the output (line 155) or rethrows (line 161)
Settled(res) ==
  [res EXCEPT !.kind = IF res.kind = "pendingOutput" THEN "output" ELSE "failed"]

\* updateModel lines 29-34 inside invokeSingleModel
InvokeUpdateGet(o) ==
  /\ opPc[o] = "invUpdGet"
  /\ LET index == FindIndex(kvModels, opId[o])
     IN IF index = 0
        THEN /\ opResult' = [opResult EXCEPT ![o] = Settled(@)]
             /\ opPc' = [opPc EXCEPT ![o] = "done"]
             /\ UNCHANGED opModels
        ELSE /\ opModels' = [opModels EXCEPT ![o] =
                  [kvModels EXCEPT ![index] = Merge(@, opUpdates[o])]]
             /\ opPc' = [opPc EXCEPT ![o] = "invUpdSet"]
             /\ UNCHANGED opResult
  /\ UNCHANGED <<kvModels, kvExecutions, calls, opId, opInput, opModel, opUpdates>>
  /\ UNCHANGED <<runVars, opQuery>>

\* updateModel lines 35-37 inside invokeSingleModel, then lines 155 / 161
InvokeUpdateSet(o) ==
  /\ opPc[o] = "invUpdSet"
  /\ kvModels' = opModels[o]
  /\ opResult' = [opResult EXCEPT ![o] = Settled(@)]
  /\ opPc' = [opPc EXCEPT ![o] = "done"]
  /\ UNCHANGED <<kvExecutions, calls, opId, opInput, opModel, opUpdates, opModels>>
  /\ UNCHANGED <<runVars, opQuery>>

\* ids passed to deleteModel: a registered one, an unknown one
DeleteIds == {"m2", "m3"}

\* models.filter(m => m.id !== id)
Filtered(ms, id) == SelectSeq(ms, LAMBDA m : m.id # id)

\* deleteModel lines 41-44: the directory is read and filtered
DeleteModelGet(o) ==
  /\ opPc[o] = "idle"
  /\ \E id \in DeleteIds :
       LET filtered == Filtered(kvModels, id)
       IN /\ opId' = [opId EXCEPT ![o] = id]
          /\ IF Len(filtered) = Len(kvModels)
             THEN /\ opResult' = [opResult EXCEPT ![o] = Returned("false", NoModel, NoPayload)]
                  /\ opPc' = [opPc EXCEPT ![o] = "done"]
                  /\ UNCHANGED opModels
             ELSE /\ opModels' = [opModels EXCEPT ![o] = filtered]
                  /\ opResult' = [opResult EXCEPT ![o] = Returned("deleting", NoModel, NoPayload)]
                  /\ opPc' = [opPc EXCEPT ![o] = "delSet"]
  /\ UNCHANGED <<kvModels, kvExecutions, calls, opInput, opModel, opUpdates, opQuery>>
  /\ UNCHANGED runVars

DeleteModelSet_PurgesHistory(o) ==
  /\ opPc[o] = "delSet"
  /\ kvModels' = opModels[o]
  /\ kvExecutions' = <<>>
  /\ opResult' = [opResult EXCEPT ![o].kind = "true"]
  /\ opPc' = [opPc EXCEPT ![o] = "done"]
  /\ UNCHANGED <<calls, opId, opInput, opModel, opUpdates, opModels, opQuery>>
  /\ UNCHANGED runVars
\* deleteModel lines 46-47
DeleteModelSet(o) ==
  /\ opPc[o] = "delSet"
  /\ kvModels' = opModels[o]
  /\ opResult' = [opResult EXCEPT ![o].kind = "true"]
  /\ opPc' = [opPc EXCEPT ![o] = "done"]
  /\ UNCHANGED <<kvExecutions, calls, opId, opInput, opModel, opUpdates, opModels, opQuery>>
  /\ UNCHANGED runVars

\* queries passed to searchModels
Queries == {[maxLatency |-> 0], [maxLatency |-> 3], [status |-> "online"],
            [type |-> "llm", tags |-> {"t1"}],
            [type |-> "llm", status |-> "offline", maxLatency |-> 4, tags |-> {"t1", "t2"}]}

\* the filter of lines 58-64; a filter applies when its field of the query
\* is truthy (a string other than '', a number other than 0, any array)
Matches(m, q) ==
  /\ ~ ("type" \in DOMAIN q /\ q.type # "" /\ m.modelType # q.type)
  /\ ~ ("status" \in DOMAIN q /\ q.status # "" /\ m.status # q.status)
  /\ ~ ("maxLatency" \in DOMAIN q /\ q.maxLatency # 0 /\ m.latency > q.maxLatency)
  /\ ~ ("tags" \in DOMAIN q /\ ~ (q.tags \subseteq m.tags))

\* searchModels lines 56-64
SearchModels(o) ==
  /\ opPc[o] = "idle"
  /\ \E q \in Queries :
       /\ opQuery' = [opQuery EXCEPT ![o] = q]
       /\ opModels' = [opModels EXCEPT ![o] = SelectSeq(kvModels, LAMBDA m : Matches(m, q))]
  /\ opResult' = [opResult EXCEPT ![o] = Returned("found", NoModel, NoPayload)]
  /\ opPc' = [opPc EXCEPT ![o] = "done"]
  /\ UNCHANGED <<kvModels, kvExecutions, calls, opId, opInput, opModel, opUpdates>>
  /\ UNCHANGED runVars

NextReg ==
  \E o \in Ops :
    \/ RegisterModelGet(o)
    \/ RegisterModelSet(o)
    \/ UserUpdateGet(o)
    \/ UserUpdateSet(o)
    \/ InvokeGet(o)
    \/ InvokeRespond(o)
    \/ InvokeUpdateGet(o)
    \/ InvokeUpdateSet(o)
    \/ DeleteModelGet(o)
    \/ DeleteModelSet(o)
    \/ SearchModels(o)

NextMix == Next \/ NextReg

Spec == Init /\ [][Next]_vars
SpecConc == InitConc /\ [][Next]_vars
SpecReg == InitReg /\ [][NextReg]_vars
SpecMix == InitMix /\ [][NextMix]_vars

\* the steps of the code are taken when they can be; the answer of a model
\* endpoint (Respond) is the environment's and may never come
Fairness ==
  \A r \in Runs :
    /\ WF_vars(Start(r))
    /\ WF_vars(GetModel(r))
    /\ WF_vars(UpdateModelGet(r))
    /\ WF_vars(UpdateModelSet(r))
    /\ WF_vars(SaveGet(r))
    /\ WF_vars(SaveSet(r))
SpecLive == Init /\ [][Next]_vars /\ Fairness

\* ------------------------------------------------- graph vocabulary
\* (the terms the properties below are stated in: node set, sources of a
\* node, dangling edges, Kahn levels)
NodeSet(p) == {p.nodes[i].id : i \in 1..Len(p.nodes)}
Sources(p, n) == {e[1] : e \in {f \in p.edges : f[2] = n}}
Dangling(p) == \E e \in p.edges : e[1] \notin NodeSet(p) \/ e[2] \notin NodeSet(p)

\* nodes left over when nodes of in-degree zero are removed again and again
RECURSIVE Residue(_, _)
Residue(N, E) ==
  LET Z == {n \in N : ~ \E e \in E : e[2] = n /\ e[1] \in N}
  IN IF Z = {} THEN N ELSE Residue(N \ Z, E)

ValidDAG(p) == ~ Dangling(p) /\ Residue(NodeSet(p), p.edges) = {}

\* index of the level of node n in a valid DAG
RECURSIVE Level(_, _)
Level(p, n) ==
  IF Sources(p, n) = {} THEN 0
  ELSE LET ls == {Level(p, s) : s \in Sources(p, n)}
       IN 1 + CHOOSE l \in ls : \A k \in ls : k <= l

Linear3(p) == p.edges = {<<"A", "B">>, <<"B", "C">>} /\ NodeSet(p) = {"A", "B", "C"}
FanOut(p) == p.edges = {<<"A", "B">>, <<"A", "C">>} /\ NodeSet(p) = {"A", "B", "C"}

\* positions in the network trace of the calls of run r, and of node n
CallsOf(r) == {i \in 1..Len(calls) : calls[i].run = r}
CallsOfNode(r, n) == {i \in CallsOf(r) : calls[i].node = n}
Terminated(i) == calls[i].status # "inflight"
Success(i) == calls[i].status = "ok"
Failure(i) == Terminated(i) /\ ~ Success(i)
Recorded(r, n) ==
  Cardinality({k \in 1..Len(result[r].invocations) : result[r].invocations[k].node = n}) = 1

\* ------------------------------------------------------------ claims

\* C1: in a run of a valid DAG in which some node's model call terminates
\* as other than success, no node of a later level is ever invoked, and the
\* run's final status is failed.
C1_FailureStopsLaterLevels ==
  \A r \in Runs : ValidDAG(pipeline[r]) =>
    /\ \A i \in CallsOf(r), j \in CallsOf(r) :
         Failure(i) => Level(pipeline[r], calls[j].node) <= Level(pipeline[r], calls[i].node)
    /\ (pc[r] = "done" /\ (\E i \in CallsOf(r) : Failure(i))) => result[r].status = "failed"

\* C2: the returned record holds exactly one Invocation entry for every node
\* whose model was invoked during the run, and no other entry.
C2_RecordHoldsEveryInvocation ==
  \A r \in Runs : pc[r] = "done" =>
    /\ Len(result[r].invocations) = Cardinality(CallsOf(r))
    /\ \A i \in CallsOf(r) : Recorded(r, calls[i].node)

\* C3: in a run of a valid DAG, the model call of the target of an edge is
\* issued only after the model call of the edge's source has terminated,
\* whatever the order in which the nodes are listed.
C3_SourceBeforeTarget ==
  \A r \in Runs : ValidDAG(pipeline[r]) =>
    \A j \in CallsOf(r) : \A s \in Sources(pipeline[r], calls[j].node) :
      \E i \in CallsOfNode(r, s) : i < j /\ Terminated(i)

\* C4: a run of an invalid graph (cycle or dangling edge) issues no model
\* call and returns a failed record with zero invocations.
C4_InvalidGraphNoCall ==
  \A r \in Runs : (pc[r] # "off" /\ ~ ValidDAG(pipeline[r])) =>
    /\ CallsOf(r) = {}
    /\ pc[r] = "done" => (result[r].status = "failed" /\ result[r].invocations = <<>>)

\* C5: the input of a node's model call is initialInput when the node has no
\* incoming edge, and otherwise the output of one of the node's own sources.
C5_InputFromSources ==
  \A r \in Runs : ValidDAG(pipeline[r]) =>
    \A i \in CallsOf(r) :
      LET src == Sources(pipeline[r], calls[i].node)
      IN IF src = {} THEN calls[i].input = initialInput
         ELSE calls[i].input \in {Output(s) : s \in src}

\* C6: once all N concurrent runs have returned, the execution store holds
\* exactly N records, the record of each run exactly once.
C6_StoreHoldsEveryRun ==
  (\A r \in Runs : pc[r] = "done") =>
    /\ Len(kvExecutions) = NRuns
    /\ \A r \in Runs :
         Cardinality({k \in 1..Len(kvExecutions) : kvExecutions[k].id = r}) = 1

\* C7: in a fan-out A->B, A->C where A succeeds, the calls of B and C are
\* both issued before either of them has terminated, and both are in the
\* returned record.
C7_SiblingsConcurrent ==
  \A r \in Runs : FanOut(pipeline[r]) =>
    /\ \A x \in {"B", "C"}, y \in {"B", "C"} :
         (\E i \in CallsOfNode(r, x) : Terminated(i)) => CallsOfNode(r, y) # {}
    /\ (pc[r] = "done" /\ (\E i \in CallsOfNode(r, "A") : Success(i))) =>
         (Recorded(r, "B") /\ Recorded(r, "C"))

\* C8: in a fan-out A->B, A->C where B's model call fails, C's model is
\* still invoked and C's invocation is in the failed record.
C8_SiblingNotCancelled ==
  \A r \in Runs :
    (FanOut(pipeline[r]) /\ pc[r] = "done" /\ (\E i \in CallsOfNode(r, "B") : Failure(i))) =>
      /\ CallsOfNode(r, "C") # {}
      /\ Recorded(r, "C")
      /\ result[r].status = "failed"

\* C9: the record of a run starts as running, changes status at most once
\* (running to completed or failed), and every record returned or appended
\* to the execution store has status completed or failed.
C9_StatusStep ==
  \A r \in Runs :
    execution'[r].status # execution[r].status =>
      (execution[r].status = "running" /\ execution'[r].status \in {"completed", "failed"})
C9_Terminal ==
  /\ \A r \in Runs : pc[r] \in {"ready", "getModel", "fetch", "updGet", "updSet"} =>
       execution[r].status = "running"
  /\ \A r \in Runs : pc[r] = "done" => result[r].status \in {"completed", "failed"}
  /\ \A k \in 1..Len(kvExecutions) : kvExecutions[k].status \in {"completed", "failed"}
C9_StateMachine == [] C9_Terminal /\ [][C9_StatusStep]_vars
C9_Witness ==
  /\ pc[1] = "done" /\ result[1].status = "failed"
  /\ \E k \in 1..Len(kvExecutions) : kvExecutions[k] = result[1]
  /\ \E i \in CallsOf(1) : Failure(i)

\* C10: a run of a valid DAG ends with status completed if and only if every
\* node of the pipeline was invoked exactly once and every one of those
\* model calls terminated as success.
C10_CompletedIffAllSucceeded ==
  \A r \in Runs : (pc[r] = "done" /\ ValidDAG(pipeline[r])) =>
    (result[r].status = "completed" <=>
       \A n \in NodeSet(pipeline[r]) :
         /\ Cardinality(CallsOfNode(r, n)) = 1
         /\ \A i \in CallsOfNode(r, n) : Success(i))
C10_Witness ==
  /\ pc[1] = "done" /\ result[1].status = "completed"
  /\ Linear3(pipeline[1])
  /\ Cardinality(CallsOf(1)) = 3

\* --------------------------------------------- directory vocabulary
ViolatesInputSchema(input) == input = "malformed"
Registered(ms, id) == \E i \in 1..Len(ms) : ms[i].id = id
EntryOf(ms, id) == ms[CHOOSE i \in 1..Len(ms) : ms[i].id = id]
OpCalls(o) == {i \in 1..Len(calls) : calls[i].run = 0 - o}
LastCall(r) == CHOOSE i \in CallsOf(r) : \A j \in CallsOf(r) : j <= i
\* the step in which the updateModel of run r's invocation writes the directory
OutcomeWritten(r) == pc[r] = "updSet" /\ pc'[r] # "updSet"

\* C11: invokeSingleModel issues no network call for an input that violates
\* the model's declared input schema.
C11_NoCallOnInvalidInput ==
  \A i \in 1..Len(calls) : ~ ViolatesInputSchema(calls[i].input)

\* C12: invoking a model id the directory does not contain fails at once
\* with model-not-found: no network call is issued, then or later, and the
\* directory is not changed.
C12_NotFoundStep ==
  \A o \in Ops :
    (opPc[o] = "idle" /\ opInput'[o] # NoPayload /\ ~ Registered(kvModels, opId'[o])) =>
      /\ opPc'[o] = "done"
      /\ opResult'[o].kind = "notFound"
      /\ calls' = calls
      /\ kvModels' = kvModels
C12_NoRetry ==
  \A o \in Ops : opResult[o].kind = "notFound" => (opPc[o] = "done" /\ OpCalls(o) = {})
C12_UnknownModelFailsFast == [] C12_NoRetry /\ [][C12_NotFoundStep]_vars
C12_Witness ==
  \E o \in Ops :
    /\ opPc[o] = "done" /\ opResult[o].kind = "notFound"
    /\ opId[o] = "m3" /\ ~ Registered(kvModels, "m3")

\* C13: when the endpoint answers every call with a non-2xx response, one
\* invocation issues exactly maxRetries + 1 = 3 network calls before it
\* reports the failure.
C13_RetriesOnUpstreamError ==
  \A o \in Ops :
    (opPc[o] = "done" /\ opResult[o].kind = "failed"
       /\ \A i \in OpCalls(o) : calls[i].status = "httpError") =>
      Cardinality(OpCalls(o)) = 2 + 1

\* C14: after a successful invocation of a model whose directory latency
\* was P, with observed latency L and the latency not written by anyone else
\* in between, the directory latency is (P + L) / 2 rounded to the nearest
\* integer, halves up.
C14_LatencyStep ==
  \A r \in Runs :
    (OutcomeWritten(r) /\ Success(LastCall(r))
       /\ EntryOf(kvModels, model[r].id).latency = model[r].latency) =>
      LET P == model[r].latency
          L == calls[LastCall(r)].latency
          N == EntryOf(kvModels', model[r].id).latency
      IN P + L \in {2 * N - 1, 2 * N}
C14_RollingLatency == [][C14_LatencyStep]_vars
C14_Witness ==
  /\ pc[1] = "done"
  /\ \E i \in CallsOf(1) :
       /\ Success(i)
       /\ (InitialLatency + calls[i].latency) % 2 = 1
       /\ 2 * EntryOf(kvModels, calls[i].modelId).latency = InitialLatency + calls[i].latency + 1

\* C15: when an invocation of a registered model terminates, the model's
\* directory status becomes online on success and error on failure, and a
\* failure leaves the latency as it was.
C15_StatusStep ==
  \A r \in Runs :
    OutcomeWritten(r) =>
      LET before == EntryOf(kvModels, model[r].id)
          after == EntryOf(kvModels', model[r].id)
      IN /\ Success(LastCall(r)) => after.status = "online"
         /\ Failure(LastCall(r)) => (after.status = "error" /\ after.latency = before.latency)
C15_OutcomeSetsStatus == [][C15_StatusStep]_vars
C15_Witness ==
  /\ pc[1] = "done"
  /\ \E i \in CallsOf(1) :
       /\ Failure(i)
       /\ EntryOf(kvModels, calls[i].modelId).status = "error"
       /\ EntryOf(kvModels, calls[i].modelId).latency = InitialLatency

\* C16: every executePipeline run eventually returns with a terminal status,
\* even when a model endpoint never answers.
C16_RunsTerminate == <>(\A r \in Runs : pc[r] \in {"off", "done"})

\* C17: a run in which a node fails (failed model call or unknown model id)
\* does not go on to further nodes, and returns a record with status failed
\* that is in the execution store when the run returns.
NodeFailed(r) ==
  \/ \E i \in CallsOf(r) : Failure(i)
  \/ \E k \in 1..Len(pipeline[r].nodes) :
       /\ ~ Registered(kvModels, pipeline[r].nodes[k].modelId)
       /\ \A j \in 1..(k - 1) : \E i \in CallsOfNode(r, pipeline[r].nodes[j].id) : Success(i)
C17_Caught ==
  \A r \in Runs :
    (pc[r] \in {"saveGet", "saveSet", "done"} /\ NodeFailed(r)) => execution[r].status = "failed"
C17_ReturnStep ==
  \A r \in Runs :
    (pc[r] # "done" /\ pc'[r] = "done") =>
      /\ result'[r] = execution[r]
      /\ NodeFailed(r) => result'[r].status = "failed"
      /\ \E k \in 1..Len(kvExecutions') : kvExecutions'[k] = result'[r]
C17_FailedRunReturnsRecord == [] C17_Caught /\ [][C17_ReturnStep]_vars
C17_Witness ==
  /\ pc[1] = "done" /\ result[1].status = "failed"
  /\ CallsOf(1) = {}
  /\ Len(pipeline[1].nodes) = 1
  /\ ~ Registered(kvModels, pipeline[1].nodes[1].modelId)
  /\ kvExecutions = <<result[1]>>

\* C18: the record registerModel stores and returns has status offline,
\* whatever its argument.
C18_RegisterStep ==
  \A o \in Ops :
    (opPc[o] = "regSet" /\ opPc'[o] = "done") =>
      /\ opResult'[o].model.status = "offline"
      /\ EntryOf(kvModels', opResult'[o].model.id).status = "offline"
C18_RegisteredOffline == [][C18_RegisterStep]_vars

\* C19: no registry operation changes the id of a record of the directory
\* (a write that keeps the number of records keeps the id at every
\* position), and no two records of the directory share an id.
C19_IdStep ==
  Len(kvModels') = Len(kvModels) =>
    \A i \in 1..Len(kvModels) : kvModels'[i].id = kvModels[i].id
C19_UniqueIds ==
  \A i \in 1..Len(kvModels), j \in 1..Len(kvModels) : kvModels[i].id = kvModels[j].id => i = j
C19_IdImmutable == [] C19_UniqueIds /\ [][C19_IdStep]_vars

\* C20: a record that is in the execution store is in every later state of
\* the store, unchanged.
C20_StoreStep ==
  \A k \in 1..Len(kvExecutions) : \E j \in 1..Len(kvExecutions') : kvExecutions'[j] = kvExecutions[k]
C20_AppendOnly == [][C20_StoreStep]_vars

\* ------------------------------------------------- claims C21 to C30
\* C21: no operation of ModelRegistry (deleteModel included) and no direct
\* invocation changes the execution store; the records of runs that used a
\* deleted model stay as they were.
C21_RegistryStep == opPc' # opPc => kvExecutions' = kvExecutions
C21_DeleteKeepsHistory == [][C21_RegistryStep]_vars
C21_Witness ==
  /\ pc[1] = "done"
  /\ Len(pipeline[1].nodes) = 1
  /\ \E o \in Ops :
       /\ opResult[o].kind = "true"
       /\ opId[o] = pipeline[1].nodes[1].modelId
  /\ Len(kvExecutions) = 1
  /\ kvExecutions[1] = result[1]

\* C22: a run on a pipeline with zero nodes issues no model call, leaves
\* every directory record as it was, and returns and appends a record with
\* status completed and zero invocations.
C22_EmptyPipelineCompletes ==
  \A r \in Runs :
    (pc[r] = "done" /\ Len(pipeline[r].nodes) = 0) =>
      /\ result[r].status = "completed"
      /\ result[r].invocations = <<>>
      /\ CallsOf(r) = {}
      /\ \A i \in 1..Len(kvModels) : kvModels[i] = ModelRecord(kvModels[i].id)
      /\ \E k \in 1..Len(kvExecutions) : kvExecutions[k] = result[r]
C22_Witness ==
  /\ pc[1] = "done"
  /\ pipeline[1].nodes = <<>>
  /\ pipeline[1].edges # {}
  /\ result[1].status = "completed"

\* C23: a record returned with status completed has a completion time (not
\* earlier than its start, so a total latency of at least 0) and a total
\* cost equal to the sum of the cost estimates of its invocations.
RECURSIVE SumCost(_)
SumCost(invs) == IF invs = <<>> THEN 0 ELSE Head(invs).cost + SumCost(Tail(invs))
C23_CompletedHasTotals ==
  \A r \in Runs :
    (pc[r] = "done" /\ result[r].status = "completed") =>
      /\ result[r].completed
      /\ result[r].totalLatency >= 0
      /\ result[r].totalCost = SumCost(result[r].invocations)

\* C24: searchModels returns exactly the registered models that satisfy
\* every filter the query holds (type, status, latency <= maxLatency for
\* every maxLatency given, 0 included, and all the tags), in directory
\* order, and leaves the directory as it was.
Satisfies(m, q) ==
  /\ "type" \in DOMAIN q => m.modelType = q.type
  /\ "status" \in DOMAIN q => m.status = q.status
  /\ "maxLatency" \in DOMAIN q => m.latency <= q.maxLatency
  /\ "tags" \in DOMAIN q => q.tags \subseteq m.tags
C24_SearchStep ==
  \A o \in Ops :
    (opPc[o] = "idle" /\ opPc'[o] = "done" /\ opResult'[o].kind = "found") =>
      /\ opModels'[o] = SelectSeq(kvModels, LAMBDA m : Satisfies(m, opQuery'[o]))
      /\ kvModels' = kvModels
C24_SearchExact == [][C24_SearchStep]_vars

\* C25: the directory write of an invocation changes nothing but the status
\* and the latency of the invoked model: the directory keeps its length,
\* every other record is the same, and the invoked record keeps every other
\* field.
C25_FrameStep ==
  \A r \in Runs :
    OutcomeWritten(r) =>
      /\ Len(kvModels') = Len(kvModels)
      /\ \A i \in 1..Len(kvModels) :
           IF kvModels[i].id = model[r].id
           THEN \A f \in DOMAIN kvModels[i] \ {"status", "latency"} :
                  kvModels'[i][f] = kvModels[i][f]
           ELSE kvModels'[i] = kvModels[i]
NodeRank(n) == CHOOSE k \in 1..Len(NodeNames) : NodeNames[k] = n
PlanBefore(p, a, b) ==
  \/ Level(p, a) < Level(p, b)
  \/ Level(p, a) = Level(p, b) /\ NodeRank(a) < NodeRank(b)
C26_OrderFromGraphOnly ==
  \A r \in Runs :
    ValidDAG(pipeline[r]) =>
      \A i \in CallsOf(r), j \in CallsOf(r) :
        i < j => PlanBefore(pipeline[r], calls[i].node, calls[j].node)

\* C27: updateModel and deleteModel on an id that is not in the directory
\* return null and false and leave the directory as it was; deleteModel on
\* an id that is in the directory removes exactly one record, the one with
\* that id, and keeps every other record, and returns true.
C27_Step ==
  \A o \in Ops :
    /\ (opPc[o] = "idle" /\ opPc'[o] = "done" /\ opResult'[o].kind \in {"null", "false"}) =>
         (~ Registered(kvModels, opId'[o]) /\ kvModels' = kvModels)
    /\ (opPc[o] = "idle" /\ opPc'[o] = "delSet") =>
         /\ Registered(kvModels, opId'[o])
         /\ Len(opModels'[o]) = Len(kvModels) - 1
         /\ \A i \in 1..Len(kvModels) :
              kvModels[i].id # opId'[o] =>
                \E j \in 1..Len(opModels'[o]) : opModels'[o][j] = kvModels[i]
    /\ (opPc[o] = "delSet" /\ opPc'[o] = "done") =>
         (kvModels' = opModels[o] /\ opResult'[o].kind = "true")
C27_UnknownIdAndExactDelete == [][C27_Step]_vars

\* C28: once registerModel has returned a model with id X, and no call has
\* deleted X or changed its id, the directory holds a record with id X.
RegisteredBy(o) ==
  opPc[o] = "done" /\ opResult[o].kind = "model" /\ opResult[o].model.id = NewIds[o]
C28_NoLostRegistration ==
  \A o \in Ops :
    (RegisteredBy(o)
       /\ ~ \E o2 \in Ops : opId[o2] = NewIds[o] /\ "id" \in DOMAIN opUpdates[o2]) =>
      Registered(kvModels, NewIds[o])

\* C29: once deleteModel(X) has returned true, with the other calls being
\* updateModel calls that change no id or invocations (no registerModel),
\* no record with id X is in the directory.
C29_DeletedStaysDeleted ==
  \A o \in Ops :
    (opPc[o] = "done" /\ opResult[o].kind = "true"
       /\ ~ \E o2 \in Ops : "id" \in DOMAIN opUpdates[o2] \/ opId[o2] = NewIds[o2]) =>
      ~ Registered(kvModels, opId[o])

\* C30: after two concurrent invocations of distinct registered models have
\* both terminated, each model's directory status and latency are those of
\* its own outcome: online and the rolling latency on success, error and the
\* registered latency on failure.
OwnOutcome(r) ==
  LET c == calls[LastCall(r)]
      e == EntryOf(kvModels, c.modelId)
  IN IF c.status = "ok"
     THEN e.status = "online" /\ e.latency = RoundHalf(InitialLatency, c.latency)
     ELSE e.status = "error" /\ e.latency = InitialLatency
C30_OutcomesIndependent ==
  \A r1 \in Runs, r2 \in Runs :
    (/\ pc[r1] = "done" /\ pc[r2] = "done"
     /\ CallsOf(r1) # {} /\ CallsOf(r2) # {}
     /\ calls[LastCall(r1)].modelId # calls[LastCall(r2)].modelId) =>
      (OwnOutcome(r1) /\ OwnOutcome(r2))

====
